---- MODULE Spec2Model ----
(***************************************************************************)
(* Model of the year-wise sheet ingestion of GHG_Emissions_Prediction.ipynb *)
(* (cell 464213c7, the loop over `years`) and of the concatenation that     *)
(* follows it (cell d99bcf77).                                              *)
(*                                                                          *)
(* A DataFrame is a record [columns, rows]: `columns` is the sequence of    *)
(* column labels and every row is a sequence of cells parallel to it.  A    *)
(* column label is a string, modelled as a sequence of tokens in which the  *)
(* token " " stands for white space, so that str.strip() has something to   *)
(* remove.  A cell is a one-element tuple holding its value and NaN is the  *)
(* empty tuple.  The row index is not modelled: both concatenations pass    *)
(* ignore_index=True and nothing reads it.                                  *)
(***************************************************************************)
EXTENDS Naturals, Sequences, FiniteSets

VARIABLES workbook, years, year_ix, pc, df_com, df_ind, all_data, err, stdout, df, attempted

vars == <<workbook, years, year_ix, pc, df_com, df_ind, all_data, err, stdout, df, attempted>>

(* ------------------------------ bounds --------------------------------- *)

\* Largest number of rows of a sheet of the workbook.
MaxRows == 2

(* ------------------------------ inputs --------------------------------- *)

\* The years whose Detail sheets the workbook may hold: the two the notebook
\* requests (years = [2015, 2016]).
SheetYears == {2015, 2016}

Kinds == {"Commodity", "Industry"}

\* The values of the Substance column, in the order of the sample.
Substances == <<"carbon dioxide", "methane", "nitrous oxide", "other GHGs">>

WS == " "

NaN == <<>>

\* A sheet name the workbook does not hold.
Absent == [hdr |-> "absent", n |-> 0, dup |-> FALSE]

NoSheet == <<0, "", "">>

\* No exception.
NoError == [raised |-> "none", sheet |-> NoSheet]

\* f'{year}_Detail_Commodity', f'{year}_Detail_Industry'
SheetName(year, kind) == <<year, "Detail", kind>>

SheetNames == {SheetName(y, k) : y \in SheetYears, k \in Kinds}

\* The columns of a Detail sheet that are neither the code nor the name, as
\* the sample of the 2015 Commodity sheet shows them.
ValueColumns ==
    << <<"Substance">>, <<"Unit">>,
       <<"Supply Chain Emission Factors without Margins">>,
       <<"Margins of Supply Chain Emission Factors">>,
       <<"Supply Chain Emission Factors with Margins">>,
       <<"Unnamed: 7">>,
       <<"DQ ReliabilityScore of Factors without Margins">>,
       <<"DQ TemporalCorrelation of Factors without Margins">>,
       <<"DQ GeographicalCorrelation of Factors without Margins">>,
       <<"DQ TechnologicalCorrelation of Factors without Margins">>,
       <<"DQ DataCollection of Factors without Margins">> >>

CodeHeader(kind) == IF kind = "Commodity" THEN "Commodity Code" ELSE "Industry Code"

NameHeader(kind) == IF kind = "Commodity" THEN "Commodity Name" ELSE "Industry Name"

\* The fixed column set of a Detail sheet of the given kind.
FixedColumns(kind) == << <<CodeHeader(kind)>>, <<NameHeader(kind)>> >> \o ValueColumns

\* How the header row of a sheet is written:
\*   "clean"   the fixed column set;
\*   "padded"  the fixed column set, the code header with white space
\*             before and after it, the name header with white space after it;
\*   "dupUnit" the fixed column set and one more column, "Unit " (with a
\*             trailing blank), which str.strip() turns into a second "Unit".
HeaderVariants == {"clean", "padded", "dupUnit"}

SheetColumns(kind, hdr) ==
    CASE hdr = "clean"   -> FixedColumns(kind)
      [] hdr = "padded"  -> << <<WS, CodeHeader(kind), WS>>, <<NameHeader(kind), WS>> >>
                               \o ValueColumns
      [] hdr = "dupUnit" -> FixedColumns(kind) \o << <<"Unit", WS>> >>

\* Row j of the sheet of year y and the given kind.  With dup = FALSE the
\* rows of a sheet have pairwise different (Code, Substance) keys; with
\* dup = TRUE they all have the key of row 1.  The cell of the emission factor
\* with margins holds a value no other row of the workbook has, written
\* <<y, kind, j>>, so that a row of a table can be traced to its sheet and to
\* its position there.
SheetRow(y, kind, hdr, dup, j) ==
    << <<"1111A0">>, <<"Fresh soybeans">>,
       <<IF dup THEN Substances[1] ELSE Substances[j]>>,
       <<"kg/2018 USD, purchaser price">>, <<0>>, <<0>>, <<y, kind, j>>, NaN,
       <<3>>, <<2>>, <<1>>, <<4>>, <<1>> >>
    \o (IF hdr = "dupUnit" THEN << <<"kg">> >> ELSE <<>>)

\* What the workbook may hold under a sheet name: nothing, or a sheet.
\* Clean sheets come with every number of rows up to MaxRows, with and
\* without repeated keys; the other header rows come with one row.
Sheets ==
    {[hdr |-> "clean", n |-> n, dup |-> d] :
        n \in 0..MaxRows, d \in {FALSE}} \cup
    {[hdr |-> "clean", n |-> n, dup |-> TRUE] : n \in 2..MaxRows} \cup
    {[hdr |-> h, n |-> 1, dup |-> FALSE] : h \in HeaderVariants \ {"clean"}}

Workbooks == [SheetNames -> Sheets \cup {Absent}]

\* The lists of years that can be requested: the years of SheetYears in
\* any order, without repetition (a list literal or a range).
RECURSIVE Lists(_)
Lists(S) ==
    {<<>>} \cup UNION {{<<y>> \o l : l \in Lists(S \ {y})} : y \in S}

YearLists == Lists(SheetYears) \ {<<>>}

(* ---------------------------- DataFrames ------------------------------- *)

Range(s) == {s[k] : k \in DOMAIN s}

\* A name that is not bound to a table yet.
Unset == [columns |-> <<>>, rows |-> <<>>]

\* pd.read_excel(excel_file, sheet_name=name) when the sheet exists.
SheetFrame(y, kind, sh) ==
    [columns |-> SheetColumns(kind, sh.hdr),
     rows    |-> [j \in 1..sh.n |-> SheetRow(y, kind, sh.hdr, sh.dup, j)]]

SheetExists(wb, name) == wb[name] # Absent

\* df[label] = value: overwrites the column when the label exists, appends a
\* new last column otherwise.
SetColumn(f, label, value) ==
    IF label \in Range(f.columns)
    THEN [f EXCEPT !.rows =
            [r \in DOMAIN f.rows |->
                [c \in DOMAIN f.columns |->
                    IF f.columns[c] = label THEN value ELSE f.rows[r][c]]]]
    ELSE [columns |-> Append(f.columns, label),
          rows    |-> [r \in DOMAIN f.rows |-> Append(f.rows[r], value)]]

\* str.strip() of one label: white space is removed at both ends.
RECURSIVE LStrip(_)
LStrip(s) == IF s # <<>> /\ Head(s) = WS THEN LStrip(Tail(s)) ELSE s

RECURSIVE RStrip(_)
RStrip(s) ==
    IF s # <<>> /\ s[Len(s)] = WS THEN RStrip(SubSeq(s, 1, Len(s) - 1)) ELSE s

\* Strip with a fault: lstrip() in place of strip().
Strip_LeftOnly(s) == LStrip(s)

Strip(s) == RStrip(LStrip(s))

\* df.columns = df.columns.str.strip()
StripColumns(f) ==
    [f EXCEPT !.columns = [c \in DOMAIN f.columns |-> Strip(f.columns[c])]]

\* The mapping given to rename for a sheet of the given kind.
RenameMap(kind, label) ==
    CASE label = <<CodeHeader(kind)>> -> <<"Code">>
      [] label = <<NameHeader(kind)>> -> <<"Name">>
      [] OTHER -> label

\* df.rename(columns={...}, inplace=True): labels that are not keys of the
\* mapping are left alone, keys that are not labels are ignored.
Rename(f, kind) ==
    [f EXCEPT !.columns = [c \in DOMAIN f.columns |-> RenameMap(kind, f.columns[c])]]

HasDuplicates(s) == \E a, b \in DOMAIN s : a # b /\ s[a] = s[b]

AllEqual(s) == \A a, b \in DOMAIN s : s[a] = s[b]

\* The labels of the frames in order of first appearance.
RECURSIVE UnionColumns(_)
UnionColumns(cols) ==
    IF cols = <<>> THEN <<>>
    ELSE LET rest == UnionColumns(SubSeq(cols, 1, Len(cols) - 1))
             last == cols[Len(cols)]
         IN  rest \o SelectSeq(last, LAMBDA l : l \notin Range(rest))

ColumnIndex(columns, label) == CHOOSE c \in DOMAIN columns : columns[c] = label

\* The rows of one frame laid out under the given labels; a label the frame
\* does not have gives NaN.
Reindex(f, labels) ==
    [r \in DOMAIN f.rows |->
        [c \in DOMAIN labels |->
            IF labels[c] \in Range(f.columns)
            THEN f.rows[r][ColumnIndex(f.columns, labels[c])]
            ELSE NaN]]

RECURSIVE Flatten(_)
Flatten(ss) == IF ss = <<>> THEN <<>> ELSE Head(ss) \o Flatten(Tail(ss))

\* pd.concat raises for an empty list (ValueError) and when the column
\* labels of the frames differ and a frame has a label twice
\* (InvalidIndexError).
ConcatRaises(frames) ==
    \/ frames = <<>>
    \/ /\ ~AllEqual([k \in DOMAIN frames |-> frames[k].columns])
       /\ \E k \in DOMAIN frames : HasDuplicates(frames[k].columns)

\* pd.concat(frames, ignore_index=True) when it does not raise: the rows of
\* the frames, in the order of the list, under the union of their labels.
Concat(frames) ==
    LET cols == [k \in DOMAIN frames |-> frames[k].columns]
    IN  IF AllEqual(cols)
        THEN [columns |-> cols[1],
              rows    |-> Flatten([k \in DOMAIN frames |-> frames[k].rows])]
        ELSE [columns |-> UnionColumns(cols),
              rows    |-> Flatten([k \in DOMAIN frames |->
                                      Reindex(frames[k], UnionColumns(cols))])]

(* --------------------------- the notebook ------------------------------ *)

\* year with a fault: the loop runs over the years of the workbook, in
\* ascending order, instead of the requested list.
year_OfWorkbook ==
    (CHOOSE l \in Lists(SheetYears) :
        Len(l) = Cardinality(SheetYears) /\ \A k \in 1..(Len(l) - 1) : l[k] < l[k + 1])
    [IF year_ix <= Cardinality(SheetYears) THEN year_ix ELSE 1]

\* for year in years: the year of the current pass.
year == years[year_ix]

\* Lines 425-440 for one of the two tables: the Source and Year columns, the
\* stripped labels, the renamed code and name columns.
\* Tagged with a fault: both tables get the Source of the Commodity table.
Tagged_AllCommodity(f, kind, y) ==
    SetColumn(SetColumn(f, <<"Source">>, <<"Commodity">>), <<"Year">>, <<y>>)

Tagged(f, kind, y) == SetColumn(SetColumn(f, <<"Source">>, <<kind>>), <<"Year">>, <<y>>)

Normalized(f, kind, y) == Rename(StripColumns(Tagged(f, kind, y)), kind)

\* JoinedTables with a fault: the Industry table is put first.
JoinedTables_IndustryFirst(com, ind) == <<ind, com>>

\* [df_com, df_ind], the list given to the concatenation of one year.
JoinedTables(com, ind) == <<com, ind>>

\* The end of one pass of the loop: the next year, or the cell after the loop.
NextYear ==
    /\ year_ix' = year_ix + 1
    /\ pc' = IF year_ix < Len(years) THEN "read_com" ELSE "concat"

Init ==
    /\ workbook \in Workbooks
    /\ years \in YearLists
    /\ year_ix = 1
    /\ pc = "read_com"
    /\ df_com = Unset
    /\ df_ind = Unset
    /\ all_data = <<>>
    /\ err = NoError
    /\ stdout = <<>>
    /\ df = Unset
    /\ attempted = <<>>

\* df_com = pd.read_excel(excel_file, sheet_name=f'{year}_Detail_Commodity')
ReadCommodity ==
    /\ pc = "read_com"
    /\ LET name == SheetName(year, "Commodity")
       IN  IF SheetExists(workbook, name)
           THEN /\ df_com' = SheetFrame(year, "Commodity", workbook[name])
                /\ pc' = "read_ind"
                /\ err' = err
           ELSE /\ err' = [raised |-> "read_excel", sheet |-> name]
                /\ pc' = "except"
                /\ df_com' = df_com
    /\ attempted' = Append(attempted, year)
    /\ UNCHANGED <<workbook, years, year_ix, df_ind, all_data, stdout, df>>

\* ReadIndustry with a fault: a missing Industry sheet is read as a table
\* without rows instead of raising.
ReadIndustry_MissingIsEmpty ==
    /\ pc = "read_ind"
    /\ LET name == SheetName(year, "Industry")
       IN  df_ind' = IF SheetExists(workbook, name)
                     THEN SheetFrame(year, "Industry", workbook[name])
                     ELSE [columns |-> FixedColumns("Industry"), rows |-> <<>>]
    /\ pc' = "transform"
    /\ UNCHANGED <<workbook, years, year_ix, df_com, all_data, err, stdout, df, attempted>>

\* ReadIndustry with a fault: the sheet name of the Commodity sheet is given
\* to the second read as well.
ReadIndustry_ReadsCommoditySheet ==
    /\ pc = "read_ind"
    /\ df_ind' = SheetFrame(year, "Commodity", workbook[SheetName(year, "Commodity")])
    /\ pc' = "transform"
    /\ UNCHANGED <<workbook, years, year_ix, df_com, all_data, err, stdout, df, attempted>>

\* df_ind = pd.read_excel(excel_file, sheet_name=f'{year}_Detail_Industry')
ReadIndustry ==
    /\ pc = "read_ind"
    /\ LET name == SheetName(year, "Industry")
       IN  IF SheetExists(workbook, name)
           THEN /\ df_ind' = SheetFrame(year, "Industry", workbook[name])
                /\ pc' = "transform"
                /\ err' = err
           ELSE /\ err' = [raised |-> "read_excel", sheet |-> name]
                /\ pc' = "except"
                /\ df_ind' = df_ind
    /\ UNCHANGED <<workbook, years, year_ix, df_com, all_data, stdout, df, attempted>>

\* The rest of the try block: the two tables are tagged, stripped and renamed
\* in place, then concatenated and appended to all_data.
Transform ==
    /\ pc = "transform"
    /\ df_com' = Normalized(df_com, "Commodity", year)
    /\ df_ind' = Normalized(df_ind, "Industry", year)
    /\ IF ConcatRaises(JoinedTables(df_com', df_ind'))
       THEN /\ err' = [raised |-> "concat", sheet |-> NoSheet]
            /\ pc' = "except"
            /\ UNCHANGED <<all_data, year_ix, stdout>>
       ELSE /\ all_data' = Append(all_data, Concat(JoinedTables(df_com', df_ind')))
            /\ err' = err
            /\ stdout' = stdout
            /\ NextYear
    /\ UNCHANGED <<workbook, years, df, attempted>>

\* Except with a fault: the handler raises again and the cell ends.
Except_Reraises ==
    /\ pc = "except"
    /\ pc' = "halted"
    /\ UNCHANGED <<workbook, years, year_ix, df_com, df_ind, all_data, err, stdout, df,
                   attempted>>

\* Except with a fault: the handler prints nothing.
Except_Silent ==
    /\ pc = "except"
    /\ stdout' = stdout
    /\ all_data' = all_data
    /\ NextYear
    /\ UNCHANGED <<workbook, years, df_com, df_ind, err, df, attempted>>

\* except Exception as e: print(f"Error processing year {year}: {e}")
Except ==
    /\ pc = "except"
    /\ stdout' = Append(stdout, [year |-> year, e |-> err])
    /\ all_data' = all_data
    /\ NextYear
    /\ UNCHANGED <<workbook, years, df_com, df_ind, err, df, attempted>>

\* FinalConcat with a fault: df = all_data[-1] in place of the concatenation.
FinalConcat_LastOnly ==
    /\ pc = "concat"
    /\ IF all_data = <<>>
       THEN /\ pc' = "halted"
            /\ err' = [raised |-> "index", sheet |-> NoSheet]
            /\ df' = df
       ELSE /\ pc' = "done"
            /\ df' = all_data[Len(all_data)]
            /\ err' = err
    /\ UNCHANGED <<workbook, years, year_ix, df_com, df_ind, all_data, stdout, attempted>>

\* FinalConcat with a fault: the concatenation is wrapped in the same
\* try/except as the loop body.
FinalConcat_Guarded ==
    /\ pc = "concat"
    /\ pc' = "done"
    /\ IF ConcatRaises(all_data)
       THEN /\ err' = [raised |-> "concat", sheet |-> NoSheet]
            /\ df' = df
            /\ stdout' = Append(stdout, [year |-> 0, e |-> err'])
       ELSE /\ df' = Concat(all_data)
            /\ err' = err
            /\ stdout' = stdout
    /\ UNCHANGED <<workbook, years, year_ix, df_com, df_ind, all_data, attempted>>

\* df = pd.concat(all_data, ignore_index=True), outside any try.
FinalConcat ==
    /\ pc = "concat"
    /\ IF ConcatRaises(all_data)
       THEN /\ pc' = "halted"
            /\ err' = [raised |-> "concat", sheet |-> NoSheet]
            /\ df' = df
       ELSE /\ pc' = "done"
            /\ df' = Concat(all_data)
            /\ err' = err
    /\ UNCHANGED <<workbook, years, year_ix, df_com, df_ind, all_data, stdout, attempted>>

Next ==
    \/ ReadCommodity
    \/ ReadIndustry
    \/ Transform
    \/ Except
    \/ FinalConcat

Spec == Init /\ [][Next]_vars

(* ------------------- the workbook, as the claims see it ---------------- *)

Sheet(y, kind) == workbook[SheetName(y, kind)]

Present(y, kind) == Sheet(y, kind) # Absent

\* The number of rows of a sheet of the workbook.
SheetRows(y, kind) == Sheet(y, kind).n

\* Both sheets of the year exist and exactly one of them has the second
\* "Unit" column: the two tables cannot be joined.
Clash(y) ==
    /\ Present(y, "Commodity") /\ Present(y, "Industry")
    /\ (Sheet(y, "Commodity").hdr = "dupUnit") # (Sheet(y, "Industry").hdr = "dupUnit")

\* Nothing fails in the year: both sheets exist and their tables can be joined.
Ingestible(y) == Present(y, "Commodity") /\ Present(y, "Industry") /\ ~Clash(y)

InLoop == pc \in {"read_com", "read_ind", "transform", "except"}

AfterLoop == pc \in {"concat", "done", "halted"}

\* The years whose pass of the loop is over.
Processed == {years[k] : k \in 1..(year_ix - 1)}

IsPrefix(s, t) == Len(s) <= Len(t) /\ SubSeq(t, 1, Len(s)) = s

Logged(y) == \E d \in Range(stdout) : d.year = y

Cell(f, r, label) == f.rows[r][ColumnIndex(f.columns, label)]

YearOf(f, r) == Cell(f, r, <<"Year">>)[1]

SourceOf(f, r) == Cell(f, r, <<"Source">>)[1]

\* The sheet a row was read from and its position there: <<year, kind, j>>.
OriginOf(f, r) == Cell(f, r, <<"Supply Chain Emission Factors with Margins">>)

RowsWith(f, y, kind) ==
    {r \in DOMAIN f.rows : YearOf(f, r) = y /\ SourceOf(f, r) = kind}

RowsOfYear(f, y) == {r \in DOMAIN f.rows : YearOf(f, r) = y}

YearPos(y) == CHOOSE k \in DOMAIN years : years[k] = y

(* -------------------------------- C1 ----------------------------------- *)

C1_State ==
    /\ pc = "halted" => year_ix = Len(years) + 1
    /\ InLoop => year_ix <= Len(years)
    /\ \A y \in Processed : ~Ingestible(y) => Logged(y)
    /\ AfterLoop => attempted = years

C1_Step ==
    /\ IsPrefix(all_data, all_data')
    /\ pc = "read_com" /\ ~Present(year, "Commodity") => pc' = "except"
    /\ pc = "read_ind" /\ ~Present(year, "Industry") => pc' = "except"
    /\ pc = "transform" /\ Clash(year) => pc' = "except"
    /\ pc = "except" =>
          /\ Len(stdout') = Len(stdout) + 1
          /\ stdout'[Len(stdout')].year = year
          /\ all_data' = all_data
          /\ year_ix' = year_ix + 1
          /\ year_ix < Len(years) => pc' = "read_com"

\* C1: whatever fails while the sheets of a requested year are read or
\* transformed (a missing Commodity sheet, a missing Industry sheet, two
\* tables that cannot be joined), the failure is caught, a diagnostic naming
\* the year is printed and the loop goes on: every requested year is
\* attempted, the run never ends inside the loop, and the entries all_data
\* already has stay in place, unchanged.
C1_FailureCaughtLoopContinues == [](C1_State) /\ [][C1_Step]_vars

\* A first year that failed, and a second year that was attempted and
\* ingested after it.
C1_Witness ==
    /\ pc = "concat" /\ Len(years) = 2
    /\ ~Ingestible(years[1]) /\ Logged(years[1])
    /\ attempted = years /\ Len(all_data) = 1

(* -------------------------------- C2 ----------------------------------- *)

IndustryMissing(y) == Present(y, "Commodity") /\ ~Present(y, "Industry")

\* C2: a requested year whose Commodity sheet exists and whose Industry sheet
\* does not is skipped as a whole: after the loop an error is logged for it
\* and no table of all_data has a row of that year; after the final
\* concatenation df has no row of that year, and has every row of every other
\* requested year in which nothing failed.
C2_YearAllOrNothing ==
    \A y \in Range(years) :
        IndustryMissing(y) /\ AfterLoop =>
            /\ Logged(y)
            /\ \A k \in DOMAIN all_data : RowsOfYear(all_data[k], y) = {}
            /\ pc = "done" =>
                  /\ RowsOfYear(df, y) = {}
                  /\ \A z \in Range(years) \ {y} :
                        Ingestible(z) =>
                            \A kind \in Kinds :
                                Cardinality(RowsWith(df, z, kind)) = SheetRows(z, kind)

\* The Industry sheet of one year is missing, its Commodity sheet has rows,
\* and the other year was ingested with rows of both kinds.
C2_Witness ==
    /\ pc = "done"
    /\ \E y, z \in Range(years) :
          /\ IndustryMissing(y) /\ SheetRows(y, "Commodity") > 0
          /\ Ingestible(z)
          /\ RowsWith(df, z, "Commodity") # {} /\ RowsWith(df, z, "Industry") # {}

(* -------------------------------- C3 ----------------------------------- *)

\* C3: in the combined table every ingested year has exactly its two groups
\* of rows, the rows of its Commodity sheet and the rows of its Industry
\* sheet, and every row carries the year of the pass that read it and the
\* kind of the sheet it was read from.
C3_TwoGroupsCorrectlyTagged ==
    pc = "done" =>
        /\ \A r \in DOMAIN df.rows :
              /\ YearOf(df, r) = OriginOf(df, r)[1]
              /\ SourceOf(df, r) = OriginOf(df, r)[2]
              /\ SourceOf(df, r) \in Kinds
        /\ \A y \in Range(years) :
              Ingestible(y) =>
                  \A kind \in Kinds :
                      {OriginOf(df, r) : r \in RowsWith(df, y, kind)}
                          = {<<y, kind, j>> : j \in 1..SheetRows(y, kind)}

\* Two years ingested, each with rows of both kinds.
C3_Witness ==
    /\ pc = "done" /\ Len(years) = 2
    /\ \A y \in Range(years) :
          Ingestible(y) /\ \A kind \in Kinds : RowsWith(df, y, kind) # {}

(* -------------------------------- C4 ----------------------------------- *)

RECURSIVE SumSeq(_)
SumSeq(s) == IF s = <<>> THEN 0 ELSE Head(s) + SumSeq(Tail(s))

\* A sheet that was read without failure: the Commodity sheet when it
\* exists, the Industry sheet when both exist (it is read second).
SuccessfullyRead(y, kind) ==
    IF kind = "Commodity" THEN Present(y, "Commodity")
    ELSE Present(y, "Commodity") /\ Present(y, "Industry")

RowsIfRead(y, kind) == IF SuccessfullyRead(y, kind) THEN SheetRows(y, kind) ELSE 0

\* C4 as stated: the combined table has as many rows as the sheets that were
\* read without failure, a Commodity sheet whose Industry sheet is missing
\* included.
C4_RowsOfAllSheetsRead ==
    pc = "done" =>
        Len(df.rows) =
            SumSeq([k \in DOMAIN years |->
                RowsIfRead(years[k], "Commodity") + RowsIfRead(years[k], "Industry")])

\* C4, amended: the combined table has as many rows as the sheets of the
\* years in which nothing failed, reading and joining the two tables included;
\* the rows of a sheet that was read in a year that failed are not counted.
C4_RowsOfIngestedYears ==
    pc = "done" =>
        Len(df.rows) =
            SumSeq([k \in DOMAIN years |->
                IF Ingestible(years[k])
                THEN SheetRows(years[k], "Commodity") + SheetRows(years[k], "Industry")
                ELSE 0])

\* One year ingested with rows, one year whose Commodity sheet has rows and
\* was read and whose Industry sheet is missing.
C4_Witness ==
    /\ pc = "done" /\ Len(df.rows) > 1
    /\ \E y \in Range(years) : IndustryMissing(y) /\ SheetRows(y, "Commodity") > 0

(* -------------------------------- C5 ----------------------------------- *)

\* C5: the combined table keeps the order of appending: the rows of a year
\* listed earlier come before the rows of a year listed later, within a year
\* the Commodity rows come before the Industry rows, and the rows of one
\* sheet keep the order they have in the sheet.
C5_AppendOrderPreserved ==
    pc = "done" =>
        \A a, b \in DOMAIN df.rows :
            a < b =>
                /\ YearPos(YearOf(df, a)) <= YearPos(YearOf(df, b))
                /\ YearOf(df, a) = YearOf(df, b) =>
                      ~(SourceOf(df, a) = "Industry" /\ SourceOf(df, b) = "Commodity")
                /\ YearOf(df, a) = YearOf(df, b) /\ SourceOf(df, a) = SourceOf(df, b) =>
                      OriginOf(df, a)[3] < OriginOf(df, b)[3]

\* Two years ingested with rows of both kinds, one sheet with two rows or
\* more.
C5_Witness ==
    /\ pc = "done" /\ Len(years) = 2
    /\ \A y \in Range(years) : \A kind \in Kinds : RowsWith(df, y, kind) # {}
    /\ \E y \in Range(years) : \E kind \in Kinds : Cardinality(RowsWith(df, y, kind)) >= 2

(* -------------------------------- C6 ----------------------------------- *)

HasFixedColumns(y, kind) == Present(y, kind) /\ Sheet(y, kind).hdr \in {"clean", "padded"}

\* What the renaming has to make of a table read from a sheet with the fixed
\* column set: the code and name columns are Code and Name, the other labels
\* are the sheet's without white space around them, Source and Year follow,
\* no label of the kind is left, no label occurs twice, the cells stay where
\* they are.
RenamedFrom(f, g, kind) ==
    /\ Len(g.columns) = Len(FixedColumns(kind)) + 2
    /\ g.columns[1] = <<"Code">>
    /\ g.columns[2] = <<"Name">>
    /\ \A c \in 3..Len(FixedColumns(kind)) : g.columns[c] = FixedColumns(kind)[c]
    /\ g.columns[Len(FixedColumns(kind)) + 1] = <<"Source">>
    /\ g.columns[Len(FixedColumns(kind)) + 2] = <<"Year">>
    /\ \A l \in Range(g.columns) : CodeHeader(kind) \notin Range(l) /\ NameHeader(kind) \notin Range(l)
    /\ \A a, b \in DOMAIN g.columns : a # b => g.columns[a] # g.columns[b]
    /\ Len(g.rows) = Len(f.rows)
    /\ \A r \in DOMAIN f.rows : \A c \in DOMAIN f.columns : g.rows[r][c] = f.rows[r][c]

C6_Step ==
    pc = "transform" =>
        /\ HasFixedColumns(year, "Commodity") => RenamedFrom(df_com, df_com', "Commodity")
        /\ HasFixedColumns(year, "Industry") => RenamedFrom(df_ind, df_ind', "Industry")
        /\ HasFixedColumns(year, "Commodity") /\ HasFixedColumns(year, "Industry") =>
              Range(df_com'.columns) = Range(df_ind'.columns)

\* C6: the renaming is total and one-to-one for both schemas, with or
\* without white space around the headers of the sheet: Commodity Code and
\* Industry Code become Code, Commodity Name and Industry Name become Name,
\* and for sheets with the fixed column set the two tables of a year end with
\* the same set of labels, Source and Year included, no label twice.
C6_RenamingTotalAndBijective == [][C6_Step]_vars

\* The tables of the last year have just been renamed; its Commodity sheet
\* has white space around the code and name headers, its Industry sheet has
\* not.
C6_Witness ==
    /\ pc = "concat"
    /\ Ingestible(years[Len(years)])
    /\ Sheet(years[Len(years)], "Commodity").hdr = "padded"
    /\ Sheet(years[Len(years)], "Industry").hdr = "clean"
    /\ <<"Code">> \in Range(df_com.columns)
    /\ Range(df_com.columns) = Range(df_ind.columns)

(* -------------------------------- C7 ----------------------------------- *)

TagsWithin(f) ==
    \A r \in DOMAIN f.rows : YearOf(f, r) \in Range(years) /\ SourceOf(f, r) \in Kinds

\* C7: whatever the list of requested years and the workbook, every row of
\* every table of all_data and of the combined table has a Year that is one
\* of the requested years and a Source that is Commodity or Industry, also
\* when the workbook holds the sheets of years that were not requested.
C7_TagsWithinRequest ==
    /\ \A k \in DOMAIN all_data : TagsWithin(all_data[k])
    /\ pc = "done" => TagsWithin(df)

\* One year requested and ingested, while the workbook holds both sheets of
\* another year, with rows.
C7_Witness ==
    /\ pc = "done" /\ Len(years) = 1 /\ Len(df.rows) > 0
    /\ \E z \in SheetYears \ Range(years) :
          \A kind \in Kinds : Present(z, kind) /\ SheetRows(z, kind) > 0

(* -------------------------------- C8 ----------------------------------- *)

NoneIngested == \A y \in Range(years) : ~Ingestible(y)

\* Two ingested years whose tables cannot be concatenated: one has the
\* second "Unit" column and the other has not.
MixedEntries ==
    \E y, z \in Range(years) :
        /\ Ingestible(y) /\ Ingestible(z)
        /\ Sheet(y, "Commodity").hdr = "dupUnit" /\ Sheet(z, "Commodity").hdr # "dupUnit"

LoggedAs(y, what) == \E d \in Range(stdout) : d.year = y /\ d.e.raised = what

\* C8 as stated: reading a sheet is the only guarded operation, so the only
\* failures that reach the handler are failed reads, and a year whose tables
\* cannot be concatenated is not logged and skipped.
C8_OnlySheetReadsGuarded ==
    /\ pc = "except" => err.raised = "read_excel"
    /\ \A y \in Processed : Clash(y) => ~Logged(y)

\* C8, amended: the concatenation after the loop is the only unguarded
\* operation.  When it fails (no year was ingested, or the tables of the
\* ingested years cannot be concatenated) the session halts, df is not bound
\* and nothing more is printed; the concatenation of the two tables of a year
\* is inside the try block, and its failure is caught, logged for the year
\* and skipped like a failed read.
C8_OnlyFinalConcatUnguarded ==
    /\ pc = "halted" =>
          /\ year_ix = Len(years) + 1
          /\ NoneIngested \/ MixedEntries
          /\ err.raised = "concat"
          /\ df = Unset
          /\ Len(stdout) = Cardinality({y \in Range(years) : ~Ingestible(y)})
    /\ pc = "done" => ~NoneIngested /\ ~MixedEntries /\ df # Unset
    /\ pc = "except" => err.raised \in {"read_excel", "concat"}
    /\ \A y \in Processed : Clash(y) => LoggedAs(y, "concat")
    /\ \A y \in Processed : ~Present(y, "Commodity") => LoggedAs(y, "read_excel")

\* Every requested year failed, one of them in the concatenation of its two
\* tables, which was caught and logged; the concatenation after the loop
\* then halted the session.
C8_Witness ==
    /\ pc = "halted" /\ all_data = <<>>
    /\ \E y \in Range(years) : Clash(y) /\ LoggedAs(y, "concat")

(* -------------------------------- C9 ----------------------------------- *)

KeyOf(f, r) ==
    <<Cell(f, r, <<"Code">>), Cell(f, r, <<"Substance">>), YearOf(f, r), SourceOf(f, r)>>

\* No sheet of a requested year has two rows with one (Code, Substance).
KeysUniquePerSheet ==
    \A y \in Range(years) : \A kind \in Kinds :
        Present(y, kind) => ~(Sheet(y, kind).dup /\ SheetRows(y, kind) >= 2)

\* C9: no row of a sheet is in the combined table twice (every sheet is read
\* and appended at most once), and when no sheet has two rows with one
\* (Code, Substance), no two rows of the combined table have the same
\* (Code, Substance, Year, Source).
C9_KeysUnique ==
    pc = "done" =>
        /\ \A a, b \in DOMAIN df.rows : a # b => OriginOf(df, a) # OriginOf(df, b)
        /\ KeysUniquePerSheet =>
              \A a, b \in DOMAIN df.rows : a # b => KeyOf(df, a) # KeyOf(df, b)

\* Two years ingested, every sheet with two rows or more and no repeated
\* key.
C9_Witness ==
    /\ pc = "done" /\ Len(years) = 2 /\ KeysUniquePerSheet
    /\ \A y \in Range(years) : \A kind \in Kinds :
          Cardinality(RowsWith(df, y, kind)) >= 2

(* -------------------------------- C10 ---------------------------------- *)

IngestedYears == SelectSeq(years, Ingestible)

C10_State ==
    /\ year_ix = 1 => all_data = <<>> /\ stdout = <<>>
    /\ Len(all_data) + Len(stdout) = year_ix - 1
    /\ AfterLoop =>
          /\ Len(all_data) = Len(IngestedYears)
          /\ \A k \in DOMAIN all_data :
                /\ \A r \in DOMAIN all_data[k].rows : YearOf(all_data[k], r) = IngestedYears[k]
                /\ Len(all_data[k].rows) =
                      SheetRows(IngestedYears[k], "Commodity")
                          + SheetRows(IngestedYears[k], "Industry")

C10_Step ==
    /\ IsPrefix(all_data, all_data') /\ IsPrefix(stdout, stdout')
    /\ year_ix' = year_ix => all_data' = all_data /\ stdout' = stdout
    /\ year_ix' # year_ix =>
          /\ year_ix' = year_ix + 1
          /\ \/ Len(all_data') = Len(all_data) + 1 /\ stdout' = stdout
             \/ all_data' = all_data /\ Len(stdout') = Len(stdout) + 1

\* C10: all_data starts empty and only grows at its end: a pass of the loop
\* either appends one table and prints nothing, or leaves all_data as it is
\* and prints one diagnostic, so the tables and the diagnostics together are
\* as many as the years processed; after the loop the tables are those of the
\* years in which nothing failed, in the order requested.
C10_AccumulatorAppendOnly == [](C10_State) /\ [][C10_Step]_vars

\* The first requested year was ingested, the second failed and was logged.
C10_Witness ==
    /\ pc = "done" /\ Len(years) = 2
    /\ Ingestible(years[1]) /\ ~Ingestible(years[2])
    /\ Len(all_data) = 1 /\ Len(stdout) = 1 /\ stdout[1].year = years[2]

====
